---- MODULE Spec2Model ----
(***************************************************************************)
(* Model of the chat orchestration of morvo13:                             *)
(*   - EnterpriseeChatService.process_message and the conversation store   *)
(*     (app/services/chat_service.py, app/models/conversation.py);         *)
(*   - MasterAgent.coordinate_marketing_analysis and its specialist        *)
(*     wrappers (app/services/ai/master_agent.py) with the vendor calls    *)
(*     of SERankingService / PerplexityService.                            *)
(*                                                                         *)
(* ORM objects are modelled as rows of the tables.  The session factory    *)
(* (app/api/deps.py:17) keeps expire_on_commit at its default, so every    *)
(* commit expires the loaded instances and the next attribute access reads *)
(* the committed row again; a read and the following commit are two        *)
(* database round trips and requests on other sessions may run between     *)
(* them.                                                                   *)
(***************************************************************************)
EXTENDS Integers, Sequences, FiniteSets, TLC

\* ------------------------------------------------------------------------
\* Bounds of the model
\* ------------------------------------------------------------------------

\* number of process_message calls started in one behaviour
MaxRequests == 2

\* number of coordinate_marketing_analysis passes in one behaviour
MaxPasses == 2

\* the DB sessions (one per request being served at a time)
Procs == {"s1", "s2"}

\* client identifiers used by the requests
Clients == {"c1"}

\* result of scalar_one_or_none() when no row matches; row ids start at 1
NoRow == 0

\* ------------------------------------------------------------------------
\* Text: a message is a sequence of characters
\* ------------------------------------------------------------------------

UpperToLower ==
  [A |-> "a", B |-> "b", C |-> "c", D |-> "d", E |-> "e", F |-> "f",
   G |-> "g", H |-> "h", I |-> "i", J |-> "j", K |-> "k", L |-> "l",
   M |-> "m", N |-> "n", O |-> "o", P |-> "p", Q |-> "q", R |-> "r",
   S |-> "s", T |-> "t", U |-> "u", V |-> "v", W |-> "w", X |-> "x",
   Y |-> "y", Z |-> "z"]

\* str.lower()
Lower(s) ==
  [i \in 1..Len(s) |-> IF s[i] \in DOMAIN UpperToLower THEN UpperToLower[s[i]] ELSE s[i]]

\* `k in s` for strings
Contains(s, k) ==
  \E i \in 1..(Len(s) - Len(k) + 1) : SubSeq(s, i, i + Len(k) - 1) = k

\* any(keyword in s for keyword in kws)
AnyKeyword(s, kws) ==
  \E k \in kws : Contains(s, k)

\* ------------------------------------------------------------------------
\* Intent classification (MasterAgent._determine_required_agents)
\* Arabic letters are written as the tokens AR_xx, one token per letter.
\* ------------------------------------------------------------------------

SeoKeywords ==
  { <<"s", "e", "o">>,
    <<"s", "e", "a", "r", "c", "h">>,
    <<"r", "a", "n", "k", "i", "n", "g">>,
    <<"g", "o", "o", "g", "l", "e">>,
    <<"k", "e", "y", "w", "o", "r", "d", "s">>,
    <<"AR_BA", "AR_HA", "AR_THA">>,
    <<"AR_MIM", "AR_HA", "AR_RA", "AR_KAF", " ", "AR_ALIF", "AR_LAM", "AR_BA", "AR_HA", "AR_THA">> }

CompetitorKeywords ==
  { <<"c", "o", "m", "p", "e", "t", "i", "t", "o", "r">>,
    <<"c", "o", "m", "p", "e", "t", "i", "t", "i", "o", "n">>,
    <<"a", "n", "a", "l", "y", "s", "i", "s">>,
    <<"AR_MIM", "AR_NUN", "AR_ALIF", "AR_FA", "AR_SIN">>,
    <<"AR_TA", "AR_HA", "AR_LAM", "AR_YA", "AR_LAM">> }

WebsiteKeywords ==
  { <<"w", "e", "b", "s", "i", "t", "e">>,
    <<"s", "i", "t", "e">>,
    <<"u", "r", "l">>,
    <<"d", "o", "m", "a", "i", "n">>,
    <<"AR_MIM", "AR_WAW", "AR_QAF", "AR_AIN">> }

MarketingKeywords ==
  { <<"m", "a", "r", "k", "e", "t", "i", "n", "g">>,
    <<"s", "t", "r", "a", "t", "e", "g", "y">>,
    <<"c", "a", "m", "p", "a", "i", "g", "n">>,
    <<"AR_TA", "AR_SIN", "AR_WAW", "AR_YA", "AR_QAF">>,
    <<"AR_ALIF", "AR_SIN", "AR_TA", "AR_RA", "AR_ALIF", "AR_TA", "AR_YA", "AR_JIM", "AR_YA", "AR_TAMARBUTA">> }


\* the keyword groups in the order of the if / elif chain
KeywordGroups ==
  <<SeoKeywords, CompetitorKeywords, WebsiteKeywords, MarketingKeywords>>

\* the groups of which the message contains a keyword
MatchingGroups(user_message) ==
  {g \in DOMAIN KeywordGroups : AnyKeyword(Lower(user_message), KeywordGroups[g])}

\* variant: the last matching group decides
PrimaryAgents_LastMatch(message_lower) ==
  IF AnyKeyword(message_lower, MarketingKeywords) THEN <<"perplexity">>
  ELSE IF AnyKeyword(message_lower, WebsiteKeywords) THEN <<"perplexity">>
  ELSE IF AnyKeyword(message_lower, CompetitorKeywords) THEN <<"seranking", "perplexity">>
  ELSE IF AnyKeyword(message_lower, SeoKeywords) THEN <<"seranking", "perplexity">>
  ELSE <<>>

\* the if / elif chain of keyword groups: the specialists added to
\* ["cultural_context"] by the first group that matches
PrimaryAgents(message_lower) ==
  IF AnyKeyword(message_lower, SeoKeywords) THEN <<"seranking", "perplexity">>
  ELSE IF AnyKeyword(message_lower, CompetitorKeywords) THEN <<"seranking", "perplexity">>
  ELSE IF AnyKeyword(message_lower, WebsiteKeywords) THEN <<"perplexity">>
  ELSE IF AnyKeyword(message_lower, MarketingKeywords) THEN <<"perplexity">>
  ELSE <<>>

\* set(list)
ToSet(list) ==
  {list[i] : i \in DOMAIN list}

\* variant: the list starts empty
DetermineRequiredAgents_NoFloor(user_message) ==
  LET required_agents == PrimaryAgents(Lower(user_message))
      with_synthesis  == IF Len(required_agents) > 1
                         THEN Append(required_agents, "data_synthesis")
                         ELSE required_agents
  IN  ToSet(with_synthesis)

\* _determine_required_agents: list(set(required_agents))
DetermineRequiredAgents(user_message) ==
  LET required_agents == <<"cultural_context">> \o PrimaryAgents(Lower(user_message))
      with_synthesis  == IF Len(required_agents) > 1
                         THEN Append(required_agents, "data_synthesis")
                         ELSE required_agents
  IN  ToSet(with_synthesis)

\* ------------------------------------------------------------------------
\* MasterAgent._extract_website_url
\* (double quote, backslash and backtick are the tokens DQUOTE, BACKSLASH, BACKTICK)
\* ------------------------------------------------------------------------

UrlStopChars ==
  {" ", "<", ">", "DQUOTE", "{", "}", "|", "BACKSLASH", "^", "BACKTICK", "[", "]"}

AlnumChars ==
  {"a", "b", "c", "d", "e", "f", "g", "h", "i", "j", "k", "l", "m", "n", "o",
   "p", "q", "r", "s", "t", "u", "v", "w", "x", "y", "z",
   "0", "1", "2", "3", "4", "5", "6", "7", "8", "9"}

HttpPrefix ==
  <<"h", "t", "t", "p", ":", "/", "/">>

HttpsPrefix ==
  <<"h", "t", "t", "p", "s", ":", "/", "/">>

\* end of the longest run of characters of `chars` that starts at position i
RunEnd(s, i, chars) ==
  CHOOSE j \in (i - 1)..Len(s) :
    /\ \A k \in i..j : s[k] \in chars
    /\ (j = Len(s) \/ s[j + 1] \notin chars)

\* start of the longest run of characters of `chars` that ends at position i
RunStart(s, i, chars) ==
  CHOOSE j \in 1..(i + 1) :
    /\ \A k \in j..i : s[k] \in chars
    /\ (j = 1 \/ s[j - 1] \notin chars)

\* matches of the pattern  https?:// followed by one or more characters that
\* are not a stop character: the positions where a match starts
HttpMatches(message) ==
  {i \in 1..Len(message) :
     \E pre \in {HttpPrefix, HttpsPrefix} :
       /\ i + Len(pre) <= Len(message)
       /\ SubSeq(message, i, i + Len(pre) - 1) = pre
       /\ message[i + Len(pre)] \notin UrlStopChars}

\* matches of the bare-domain pattern (label "." label ...) in the lower-cased
\* message: the positions of a dot with a letter or digit on both sides
\* (messages of the model have no "-" or "_" and no label over 63 characters)
DomainDots(message_lower) ==
  {i \in 2..(Len(message_lower) - 1) :
     /\ message_lower[i] = "."
     /\ message_lower[i - 1] \in AlnumChars
     /\ message_lower[i + 1] \in AlnumChars}

Min(S) ==
  CHOOSE x \in S : \A y \in S : x <= y

\* the dots a domain match extends over: label "." label "." label ...
RECURSIVE DomainEnd(_, _)
DomainEnd(s, dot) ==
  LET e == RunEnd(s, dot + 1, AlnumChars)
  IN  IF e + 1 \in DomainDots(s) THEN DomainEnd(s, e + 1) ELSE e

\* _extract_website_url: the first URL of the message, <<>> for None
ExtractWebsiteUrl(message) ==
  LET lower == Lower(message)
  IN  IF HttpMatches(message) # {}
      THEN LET i == Min(HttpMatches(message))
           IN  SubSeq(message, i, RunEnd(message, i, ToSet(message) \ UrlStopChars))
      ELSE IF DomainDots(lower) # {}
      THEN LET d == Min(DomainDots(lower))
           IN  HttpsPrefix \o SubSeq(lower, RunStart(lower, d - 1, AlnumChars), DomainEnd(lower, d))
      ELSE <<>>

\* ------------------------------------------------------------------------
\* Messages of the model
\* ------------------------------------------------------------------------

\* "Hello"
MsgHello ==
  <<"H", "e", "l", "l", "o">>

\* "SEO of a.sa"
MsgSeoUrl ==
  <<"S", "E", "O", " ", "o", "f", " ", "a", ".", "s", "a">>

\* "seo tips"
MsgSeo ==
  <<"s", "e", "o", " ", "t", "i", "p", "s">>

\* "(Arabic) search"
MsgSearchArabic ==
  <<"AR_BA", "AR_HA", "AR_THA">>

\* "competitor x.sa"
MsgCompetitor ==
  <<"c", "o", "m", "p", "e", "t", "i", "t", "o", "r", " ", "x", ".", "s", "a">>

\* "my site"
MsgWebsite ==
  <<"m", "y", " ", "s", "i", "t", "e">>

\* "http://a.sa"
MsgWebsiteUrl ==
  <<"h", "t", "t", "p", ":", "/", "/", "a", ".", "s", "a">>

\* "campaign"
MsgMarketing ==
  <<"c", "a", "m", "p", "a", "i", "g", "n">>

\* "seo campaign"
MsgSeoMarketing ==
  <<"s", "e", "o", " ", "c", "a", "m", "p", "a", "i", "g", "n">>

\* "competitor site"
MsgCompetitorWebsite ==
  <<"c", "o", "m", "p", "e", "t", "i", "t", "o", "r", " ", "s", "i", "t", "e">>

\* "site campaign"
MsgWebsiteMarketing ==
  <<"s", "i", "t", "e", " ", "c", "a", "m", "p", "a", "i", "g", "n">>

\* ""
MsgEmpty ==
  <<>>

Messages ==
  {MsgEmpty, MsgHello, MsgSeoUrl, MsgSeo, MsgSearchArabic, MsgCompetitor, MsgWebsite,
   MsgWebsiteUrl, MsgMarketing, MsgSeoMarketing, MsgCompetitorWebsite,
   MsgWebsiteMarketing}

\* messages sent through the chat service
ChatMessages ==
  {MsgHello, MsgSeoUrl}

\* ------------------------------------------------------------------------
\* Vendor services (SERankingService, PerplexityService)
\* ------------------------------------------------------------------------

\* what one HTTP call to a vendor can do: a 2xx reply, a 4xx/5xx reply
\* (httpx.HTTPStatusError), a network error or a timeout (both
\* httpx.RequestError)
VendorOutcomes ==
  {"ok", "http_error", "request_error", "timeout"}

\* SERankingService.analyze_backlinks: "ok" stands for {"success": True, ...},
\* "unsuccessful" for {"success": False, ...}, "raised" for ServiceError
AnalyzeBacklinks(outcome) ==
  CASE outcome = "ok"         -> "ok"
    [] outcome = "http_error" -> "unsuccessful"
    [] OTHER                  -> "raised"

\* PerplexityService.analyze_website
AnalyzeWebsite(outcome) ==
  CASE outcome = "ok"         -> "ok"
    [] outcome = "http_error" -> "unsuccessful"
    [] OTHER                  -> "raised"

\* ------------------------------------------------------------------------
\* MasterAgent: the specialists and their wrappers
\* ------------------------------------------------------------------------

Agents ==
  {"cultural_context", "perplexity", "seranking", "data_synthesis"}

\* the order of the `if ... in required_agents` blocks
AgentOrder ==
  <<"cultural_context", "perplexity", "seranking", "data_synthesis">>

\* variant: the backlink specialist runs whenever web research is required
Activated_SeoWithResearch(agent, required) ==
  \/ agent \in required
  \/ (agent = "seranking" /\ "perplexity" \in required)

\* `if "<agent>" in required_agents:`
Activated(agent, required) ==
  agent \in required

\* the block that follows the block of `agent`
NextStage(agent) ==
  CASE agent = "cultural_context" -> "perplexity"
    [] agent = "perplexity"       -> "seranking"
    [] agent = "seranking"        -> "data_synthesis"
    [] agent = "data_synthesis"   -> "coordinate"

\* does the wrapper of `agent` await a vendor call, given the website_url it
\* extracted from the message
Suspends(agent, website_url) ==
  /\ agent \in {"perplexity", "seranking"}
  /\ website_url # <<>>

\* the value the specialist's own call produces inside its wrapper:
\*   cultural_context: CulturalContextAgent defines no analyze_cultural_context
\*   perplexity:       analyze_website(url), or research_query, which
\*                     PerplexityService does not define
\*   seranking:        analyze_backlinks(url), or the fixed recommendations
\*   data_synthesis:   DataSynthesisAgent defines no synthesize_agent_data
ServiceCall(agent, website_url, outcome) ==
  CASE agent = "cultural_context" -> "raised"
    [] agent = "perplexity" ->
         IF website_url # <<>> THEN AnalyzeWebsite(outcome) ELSE "raised"
    [] agent = "seranking" ->
         IF website_url # <<>> THEN AnalyzeBacklinks(outcome) ELSE "ok"
    [] agent = "data_synthesis" -> "raised"

\* _execute_cultural_analysis, _execute_perplexity_analysis,
\* _execute_seo_analysis, _execute_data_synthesis: the "status" of the dict
\* the wrapper returns; only an exception gives "error"
WrapperStatus(service_result) ==
  IF service_result = "raised" THEN "error" ELSE "success"

\* the agent_results dict handed to _execute_data_synthesis
SynthesisInput(results) ==
  results

\* _create_coordinated_analysis / _generate_response_summary: the kind of
\* summary text ("analysis" is the Saudi Market Intelligence Analysis text)
CreateCoordinatedAnalysis(results) ==
  "analysis"

\* ------------------------------------------------------------------------
\* State
\* ------------------------------------------------------------------------

VARIABLES
  \* --- one MasterAgent.coordinate_marketing_analysis call ---
  cpc,              \* position in coordinate_marketing_analysis
  user_message,     \* request["message"]
  required_agents,  \* result of _determine_required_agents
  agent_results,    \* analysis_results["agent_results"]: status per agent
  service_results,  \* what the specialist's own call produced
  invoked,          \* number of times each wrapper was called in this pass
  in_flight,        \* wrappers awaiting a vendor call
  synthesis_input,  \* the agent_results passed to _execute_data_synthesis
  coordinated,      \* kind of summary in the returned coordinated_analysis
  passes,           \* number of passes started
  \* --- the database ---
  users,            \* table users: sequence of rows, id = position
  cultural_contexts,\* table cultural_contexts: the user ids that have a row
  conversations,    \* table conversations: sequence of rows, id = position
  turns,            \* table conversation_turns, in commit order
  \* --- one process_message call per DB session ---
  pc,               \* position of the call in process_message
  req,              \* the ChatMessage and user_id being processed
  loc,              \* local variables of the call
  last,             \* the ChatResponse the session returned last
  started           \* number of process_message calls started

coord_vars ==
  <<cpc, user_message, required_agents, agent_results, service_results,
    invoked, in_flight, synthesis_input, coordinated, passes>>

db_vars ==
  <<users, cultural_contexts, conversations, turns>>

chat_vars ==
  <<pc, req, loc, last, started>>

\* the core: coordinator, database and chat service
core_vars ==
  <<coord_vars, db_vars, chat_vars>>

VARIABLES
  \* --- SERankingProcessorAgent._analyze_saudi_market_context ---
  api_data,         \* the backlink summary received from the API
  saudi_context,    \* the saudi_context dict the analysis returned
  \* --- generate_simple_response ---
  simple_content,   \* the message given to generate_simple_response
  simple_response,  \* the reply it returned
  \* --- _get_conversation_history ---
  history,          \* the turns the last history query returned
  \* --- SE Ranking domains: analyze_domain and analyze_website_task ---
  domains,          \* table seranking_domains: sequence of rows, id = position
  analyses,         \* table seranking_backlink_analyses
  task_queue,       \* analyze_website_task.delay calls not yet picked up
  sr_pc,            \* position of each worker in its request or task run
  sr_loc,           \* local variables of each worker
  sr_last,          \* what each worker's last request or run ended with
  sr_started,       \* number of analyze_domain requests started
  \* --- register_user and login_access_token ---
  auth_pc,          \* position of each session in register_user
  auth_req,         \* the UserCreate being registered
  auth_last,        \* the last answer of each session
  auth_started      \* number of register / login calls started

score_vars ==
  <<api_data, saudi_context>>

simple_vars ==
  <<simple_content, simple_response>>

history_vars ==
  <<history>>

sr_vars ==
  <<domains, analyses, task_queue, sr_pc, sr_loc, sr_last, sr_started>>

auth_vars ==
  <<auth_pc, auth_req, auth_last, auth_started>>

\* everything outside the core
ext_vars ==
  <<score_vars, simple_vars, history_vars, sr_vars, auth_vars>>

vars ==
  <<core_vars, ext_vars>>

NoResults ==
  [a \in Agents |-> "absent"]

CoordInit ==
  /\ cpc = "idle"
  /\ user_message = <<>>
  /\ required_agents = {}
  /\ agent_results = NoResults
  /\ service_results = NoResults
  /\ invoked = [a \in Agents |-> 0]
  /\ in_flight = {}
  /\ synthesis_input = NoResults
  /\ coordinated = "none"
  /\ passes = 0

\* ------------------------------------------------------------------------
\* MasterAgent.coordinate_marketing_analysis, step by step
\* ------------------------------------------------------------------------

\* entry: classify the message and initialise analysis_results
CoordinateStart(message) ==
  /\ UNCHANGED <<db_vars, chat_vars, ext_vars>>
  /\ cpc \in {"idle", "done"}
  /\ passes < MaxPasses
  /\ passes' = passes + 1
  /\ user_message' = message
  /\ required_agents' = DetermineRequiredAgents(message)
  /\ agent_results' = NoResults
  /\ service_results' = NoResults
  /\ invoked' = [a \in Agents |-> 0]
  /\ in_flight' = {}
  /\ synthesis_input' = NoResults
  /\ coordinated' = "none"
  /\ cpc' = AgentOrder[1]

\* an `if` block whose agent is not required
SkipSpecialist(agent) ==
  /\ UNCHANGED <<db_vars, chat_vars, ext_vars>>
  /\ cpc = agent
  /\ ~Activated(agent, required_agents)
  /\ cpc' = NextStage(agent)
  /\ UNCHANGED <<user_message, required_agents, agent_results, service_results,
                 invoked, in_flight, synthesis_input, coordinated, passes>>

\* a wrapper that finishes without awaiting a vendor
RunSpecialist(agent) ==
  /\ UNCHANGED <<db_vars, chat_vars, ext_vars>>
  /\ cpc = agent
  /\ Activated(agent, required_agents)
  /\ ~Suspends(agent, ExtractWebsiteUrl(user_message))
  /\ LET r == ServiceCall(agent, ExtractWebsiteUrl(user_message), "ok")
     IN  /\ service_results' = [service_results EXCEPT ![agent] = r]
         /\ agent_results' = [agent_results EXCEPT ![agent] = WrapperStatus(r)]
  /\ invoked' = [invoked EXCEPT ![agent] = @ + 1]
  /\ synthesis_input' = IF agent = "data_synthesis"
                        THEN SynthesisInput(agent_results)
                        ELSE synthesis_input
  /\ cpc' = NextStage(agent)
  /\ UNCHANGED <<user_message, required_agents, in_flight, coordinated, passes>>

\* a wrapper starts its vendor call and the coordinator awaits it
CallSpecialist(agent) ==
  /\ UNCHANGED <<db_vars, chat_vars, ext_vars>>
  /\ cpc = agent
  /\ Activated(agent, required_agents)
  /\ Suspends(agent, ExtractWebsiteUrl(user_message))
  /\ agent \notin in_flight
  /\ in_flight' = in_flight \cup {agent}
  /\ invoked' = [invoked EXCEPT ![agent] = @ + 1]
  /\ UNCHANGED <<cpc, user_message, required_agents, agent_results,
                 service_results, synthesis_input, coordinated, passes>>

\* the vendor call ends and the wrapper returns its dict
SpecialistReturns(agent, outcome) ==
  /\ UNCHANGED <<db_vars, chat_vars, ext_vars>>
  /\ cpc = agent
  /\ agent \in in_flight
  /\ in_flight' = in_flight \ {agent}
  /\ LET r == ServiceCall(agent, ExtractWebsiteUrl(user_message), outcome)
     IN  /\ service_results' = [service_results EXCEPT ![agent] = r]
         /\ agent_results' = [agent_results EXCEPT ![agent] = WrapperStatus(r)]
  /\ cpc' = NextStage(agent)
  /\ UNCHANGED <<user_message, required_agents, invoked, synthesis_input,
                 coordinated, passes>>

\* _create_coordinated_analysis and the return of analysis_results
CoordinateFinish ==
  /\ UNCHANGED <<db_vars, chat_vars, ext_vars>>
  /\ cpc = "coordinate"
  /\ coordinated' = CreateCoordinatedAnalysis(agent_results)
  /\ cpc' = "done"
  /\ UNCHANGED <<user_message, required_agents, agent_results, service_results,
                 invoked, in_flight, synthesis_input, passes>>

CoordNext ==
  \/ \E m \in Messages : CoordinateStart(m)
  \/ \E a \in Agents : SkipSpecialist(a)
  \/ \E a \in Agents : RunSpecialist(a)
  \/ \E a \in Agents : CallSpecialist(a)
  \/ \E a \in Agents, o \in VendorOutcomes : SpecialistReturns(a, o)
  \/ CoordinateFinish

\* the agent_results of a whole pass, from the required agents, the
\* website_url of the message and what each vendor call does
AgentResultsOf(required, website_url, outcomes) ==
  [a \in Agents |->
     IF Activated(a, required)
     THEN WrapperStatus(ServiceCall(a, website_url, outcomes[a]))
     ELSE "absent"]

\* the analysis_results chat_service._process_with_master_agent receives
CoordinateMarketingAnalysis(required, website_url, outcomes) ==
  LET results == AgentResultsOf(required, website_url, outcomes)
  IN  [activated_agents |-> required,
       agent_results    |-> results,
       summary          |-> CreateCoordinatedAnalysis(results)]

\* ------------------------------------------------------------------------
\* Conversation store (app/models/conversation.py, app/models/user.py)
\* ------------------------------------------------------------------------

\* f"{client_id}@morvo.temp"
EmailOfClient(client_id) ==
  <<client_id, "@morvo.temp">>

\* User(email=f"{client_id}@morvo.temp", hashed_password="temp",
\* is_active=True, ...)
NewGuestUser(client_id) ==
  [email           |-> EmailOfClient(client_id),
   hashed_password |-> <<"temp">>,
   is_active       |-> TRUE]

\* select(User).where(User.email == email)
UsersByEmail(email) ==
  {u \in DOMAIN users : users[u].email = email}

\* select(Conversation).where(user_id == user, is_active == True)
ActiveConversations(user) ==
  {c \in DOMAIN conversations :
     conversations[c].user_id = user /\ conversations[c].is_active}

\* the Conversation(...) row built by _get_or_create_conversation
NewConversation(user) ==
  [user_id              |-> user,
   status               |-> "active",
   is_active            |-> TRUE,
   is_completed         |-> FALSE,
   involved_agents      |-> <<"master_agent">>,
   total_turns          |-> 0,
   user_messages_count  |-> 0,
   agent_messages_count |-> 0]

\* Conversation.complete_conversation
CompleteRow(row) ==
  [row EXCEPT !.is_completed = TRUE, !.status = "completed"]

\* variant: the turn takes the counter's value as it is
NextTurnNumber_NoIncrement(total_turns) ==
  total_turns

\* turn_number=conversation.total_turns + 1
NextTurnNumber(total_turns) ==
  total_turns + 1

\* conversation.total_turns += 1
IncrementCounter(counter) ==
  counter + 1

\* the turns of one conversation, in commit order
TurnsOf(c) ==
  SelectSeq(turns, LAMBDA t : t.conversation_id = c)

\* ------------------------------------------------------------------------
\* EnterpriseeChatService.process_message
\* ------------------------------------------------------------------------

NoRequest ==
  [client_id |-> "", user_id |-> NoRow, content |-> <<>>]

\* locals of one call; user_turns / agent_turns count the turns the call has
\* committed, picked_completed records whether the conversation the call
\* selected was already completed
InitialLoc ==
  [user                 |-> NoRow,
   conv                 |-> NoRow,
   total_turns          |-> 0,
   user_messages_count  |-> 0,
   agent_messages_count |-> 0,
   has_context          |-> FALSE,
   activated            |-> {},
   summary              |-> "none",
   content              |-> <<>>,
   cultural_notes       |-> 0,
   user_turns           |-> 0,
   agent_turns          |-> 0,
   picked_completed     |-> FALSE]

\* str(uuid.uuid4()): 36 hexadecimal digits and hyphens, written as one token
StrOfUuid ==
  <<"UUID4">>

\* str.startswith
StartsWith(s, prefix) ==
  /\ Len(s) >= Len(prefix)
  /\ SubSeq(s, 1, Len(prefix)) = prefix

\* what a session has returned: agent "none" before the first return;
\* content is the response text as a sequence of its parts; error names the
\* step whose exception ended the call; activated, user_turns and
\* agent_turns record what the call did before it returned
NoResponse ==
  [agent |-> "none", message_id |-> <<>>,
   conversation_id |-> NoRow, content |-> <<>>,
   cultural_notes |-> 0, error |-> "none", activated |-> {},
   user_turns |-> 0, agent_turns |-> 0]

\* the ChatResponse built at the end of the try block
ChatResponse(l) ==
  [agent |-> "master_agent", message_id |-> StrOfUuid,
   conversation_id |-> l.conv, content |-> l.content,
   cultural_notes |-> l.cultural_notes, error |-> "none",
   activated |-> l.activated,
   user_turns |-> l.user_turns, agent_turns |-> l.agent_turns]

\* _create_error_response: the fixed apology text, agent "system", no
\* cultural_adaptations
CreateErrorResponse(l, error) ==
  [agent |-> "system", message_id |-> <<"error_">> \o StrOfUuid,
   conversation_id |-> NoRow, content |-> <<"APOLOGY">>,
   cultural_notes |-> 0, error |-> error, activated |-> l.activated,
   user_turns |-> l.user_turns, agent_turns |-> l.agent_turns]

\* variant: the exception leaves process_message
HandleException_Reraise(l, error) ==
  [agent |-> "raised", message_id |-> <<>>,
   conversation_id |-> NoRow, content |-> <<>>,
   cultural_notes |-> 0, error |-> error, activated |-> l.activated,
   user_turns |-> l.user_turns, agent_turns |-> l.agent_turns]

\* `except Exception as e:` of process_message: every exception of the try
\* block becomes the returned error response
HandleException(l, error) ==
  CreateErrorResponse(l, error)

\* _add_default_cultural_context over _extract_response_content:
\* prefix + summary + suffix
AddDefaultCulturalContext(summary) ==
  <<"CULTURAL_PREFIX", summary, "CULTURAL_SUFFIX">>

ChatInit ==
  /\ users = <<>>
  /\ cultural_contexts = {}
  /\ conversations = <<>>
  /\ turns = <<>>
  /\ pc = [p \in Procs |-> "idle"]
  /\ req = [p \in Procs |-> NoRequest]
  /\ loc = [p \in Procs |-> InitialLoc]
  /\ last = [p \in Procs |-> NoResponse]
  /\ started = 0

\* ------------------------------------------------------------------------
\* SERankingProcessorAgent._analyze_saudi_market_context
\* Scores are kept in tenths (the code rounds to one decimal): 100 is 10.0.
\* ------------------------------------------------------------------------

\* bound on the counts (referring domains, backlinks) of a backlink summary
MaxCount == 2

ArabicLetters ==
  {"AR_ALIF", "AR_BA", "AR_TA", "AR_THA", "AR_JIM", "AR_HA", "AR_RA", "AR_SIN",
   "AR_AIN", "AR_FA", "AR_QAF", "AR_KAF", "AR_LAM", "AR_MIM", "AR_NUN",
   "AR_WAW", "AR_YA", "AR_TAMARBUTA"}

\* _is_arabic_text: the text has a character of the Arabic blocks
IsArabicText(text) ==
  \E i \in DOMAIN text : text[i] \in ArabicLetters

\* str.endswith
EndsWith(s, suffix) ==
  /\ Len(s) >= Len(suffix)
  /\ SubSeq(s, Len(s) - Len(suffix) + 1, Len(s)) = suffix

\* ["sa", "saudi arabia"]
SaudiCountryNames ==
  { <<"s", "a">>,
    <<"s", "a", "u", "d", "i", " ", "a", "r", "a", "b", "i", "a">> }

\* ["ae", "kw", "qa", "bh", "om", "uae", "kuwait", "qatar", "bahrain", "oman"]
GccCountryNames ==
  { <<"a", "e">>, <<"k", "w">>, <<"q", "a">>, <<"b", "h">>, <<"o", "m">>,
    <<"u", "a", "e">>, <<"k", "u", "w", "a", "i", "t">>,
    <<"q", "a", "t", "a", "r">>, <<"b", "a", "h", "r", "a", "i", "n">>,
    <<"o", "m", "a", "n">> }

\* ".gov.sa"
GovSuffix ==
  <<".", "g", "o", "v", ".", "s", "a">>

\* ".edu.sa"
EduSuffix ==
  <<".", "e", "d", "u", ".", "s", "a">>

\* the entries of top_countries that name Saudi Arabia
SaudiEntries(top_countries) ==
  {i \in DOMAIN top_countries : Lower(top_countries[i].country) \in SaudiCountryNames}

Max(S) ==
  CHOOSE x \in S : \A y \in S : y <= x

\* saudi_domains_count: assigned (not added) by every Saudi entry, so the
\* last one in the list stays
SaudiDomainsCount(top_countries) ==
  IF SaudiEntries(top_countries) = {} THEN 0
  ELSE top_countries[Max(SaudiEntries(top_countries))].referring_domains

RECURSIVE SumSeq(_)
\* sum of a list of numbers
SumSeq(numbers) ==
  IF numbers = <<>> THEN 0 ELSE Head(numbers) + SumSeq(Tail(numbers))

\* gcc_domains_count: the referring_domains of the GCC entries, added up
GccDomainsCount(top_countries) ==
  SumSeq([i \in DOMAIN top_countries |->
            IF /\ Lower(top_countries[i].country) \notin SaudiCountryNames
               /\ Lower(top_countries[i].country) \in GccCountryNames
            THEN top_countries[i].referring_domains ELSE 0])

\* arabic_anchor_texts: the anchors whose text is Arabic
ArabicAnchorTexts(anchors) ==
  SelectSeq(anchors, IsArabicText)

\* saudi_government_backlinks / saudi_education_backlinks
BacklinksFrom(top_referring_domains, suffix) ==
  SumSeq([i \in DOMAIN top_referring_domains |->
            IF EndsWith(top_referring_domains[i].domain, suffix)
            THEN top_referring_domains[i].backlinks ELSE 0])

\* round(numerator / denominator) to the nearest integer, ties to even, as
\* round(x, 1) does for a value given in tenths
RoundHalfEven(numerator, denominator) ==
  LET q == numerator \div denominator
      r == numerator % denominator
  IN  IF 2 * r < denominator THEN q
      ELSE IF 2 * r > denominator THEN q + 1
      ELSE IF q % 2 = 0 THEN q ELSE q + 1

\* summary.get("refdomains", 1), and 1 in place of 0; refdomains is <<>> when
\* the key is missing and <<n>> otherwise
TotalReferringDomains(refdomains) ==
  IF refdomains = <<>> THEN 1
  ELSE IF refdomains[1] = 0 THEN 1 ELSE refdomains[1]

\* the weighted sum before the cap, as a fraction in tenths:
\* 4 saudi_ratio + 2 gcc_ratio + 2 arabic_ratio + 1 (gov) + 0.5 (edu)
WeightedScore(summary) ==
  LET total   == TotalReferringDomains(summary.refdomains)
      anchors == IF Len(summary.top_anchors_by_backlinks) > 1
                 THEN Len(summary.top_anchors_by_backlinks) ELSE 1
      saudi   == SaudiDomainsCount(summary.top_countries)
      gcc     == GccDomainsCount(summary.top_countries)
      arabic  == Len(ArabicAnchorTexts(summary.top_anchors_by_backlinks))
      gov     == IF BacklinksFrom(summary.top_referring_domains, GovSuffix) > 0
                 THEN 10 ELSE 0
      edu     == IF /\ BacklinksFrom(summary.top_referring_domains, EduSuffix) > 0
                 THEN 5 ELSE 0
  IN  [numerator   |-> (40 * saudi + 20 * gcc) * anchors + 20 * arabic * total
                          + (gov + edu) * total * anchors,
       denominator |-> total * anchors]

\* variant: the rounded sum is returned as it is
LocalRelevanceScore_NoCap(summary) ==
  LET w == WeightedScore(summary)
  IN  RoundHalfEven(w.numerator, w.denominator)

\* local_relevance_score: the rounded sum, at most 10.0
LocalRelevanceScore(summary) ==
  LET w       == WeightedScore(summary)
      rounded == RoundHalfEven(w.numerator, w.denominator)
  IN  IF rounded > 100 THEN 100 ELSE rounded

\* the saudi_context the function starts with and returns when api_data has
\* no summary
DefaultSaudiContext ==
  [saudi_domains_count |-> 0, gcc_domains_count |-> 0,
   local_relevance_score |-> 0, analysed |-> FALSE]

\* _analyze_saudi_market_context; api_data.summary is the list under
\* "summary", of which the first element is used
AnalyzeSaudiMarketContext(data) ==
  IF data.summary = <<>>
  THEN [DefaultSaudiContext EXCEPT !.analysed = TRUE]
  ELSE LET summary == data.summary[1]
       IN  [saudi_domains_count   |-> SaudiDomainsCount(summary.top_countries),
            gcc_domains_count     |-> GccDomainsCount(summary.top_countries),
            local_relevance_score |-> LocalRelevanceScore(summary),
            analysed              |-> TRUE]

\* --- the backlink summaries of the model -------------------------------

\* "SA", "ae", "us"
CountryNames ==
  { <<"S", "A">>, <<"a", "e">>, <<"u", "s">> }

CountryEntries ==
  [country : CountryNames, referring_domains : 0..MaxCount]

\* top_countries: no, one or two entries
TopCountryLists ==
  {<<>>} \cup {<<e>> : e \in CountryEntries}
         \cup {<<e, f>> : e \in CountryEntries, f \in CountryEntries}

\* an Arabic anchor text and an English one
AnchorTexts ==
  { <<"AR_MIM", "AR_WAW", "AR_QAF", "AR_AIN">>, <<"s", "e", "o">> }

\* top_anchors_by_backlinks: no anchor, one, or an Arabic and an English one
AnchorLists ==
  {<<>>} \cup {<<a>> : a \in AnchorTexts}
         \cup {l \in {<<a, b>> : a \in AnchorTexts, b \in AnchorTexts} : l[1] # l[2]}

\* "m.gov.sa", "u.edu.sa", "x.com"
ReferringDomainNames ==
  { <<"m", ".", "g", "o", "v", ".", "s", "a">>,
    <<"u", ".", "e", "d", "u", ".", "s", "a">>,
    <<"x", ".", "c", "o", "m">> }

\* top_referring_domains: no entry; one entry with backlinks; a government
\* domain without backlinks; a government and an education domain
ReferringDomainLists ==
  {<<>>}
    \cup {<<[domain |-> d, backlinks |-> MaxCount]>> : d \in ReferringDomainNames}
    \cup {<<[domain |-> <<"m">> \o GovSuffix, backlinks |-> 0]>>}
    \cup {<<[domain |-> <<"m">> \o GovSuffix, backlinks |-> MaxCount],
             [domain |-> <<"u">> \o EduSuffix, backlinks |-> MaxCount]>>}

Summaries ==
  [top_countries            : TopCountryLists,
   top_anchors_by_backlinks : AnchorLists,
   top_referring_domains    : ReferringDomainLists,
   refdomains               : {<<>>} \cup {<<n>> : n \in 0..MaxCount}]

\* no API data received yet
NoApiData ==
  [received |-> FALSE, summary |-> <<>>]

\* a JSON body of the API whose "summary" list is `summary_list`
ApiDataOf(summary_list) ==
  [received |-> TRUE, summary |-> summary_list]

ScoreInit ==
  /\ api_data = NoApiData
  /\ saudi_context = DefaultSaudiContext

\* analyze_backlinks receives the JSON body `data` of a 2xx reply
ReceiveApiData(data) ==
  /\ ~api_data.received
  /\ api_data' = data
  /\ UNCHANGED <<saudi_context, core_vars, simple_vars, history_vars, sr_vars,
                 auth_vars>>

\* analyze_backlinks calls _analyze_saudi_market_context(data, domain)
AnalyzeReceivedData ==
  /\ api_data.received
  /\ ~saudi_context.analysed
  /\ saudi_context' = AnalyzeSaudiMarketContext(api_data)
  /\ UNCHANGED <<api_data, core_vars, simple_vars, history_vars, sr_vars,
                 auth_vars>>

ScoreNext ==
  \/ ReceiveApiData(ApiDataOf(<<>>))
  \/ \E s \in Summaries : ReceiveApiData(ApiDataOf(<<s>>))
  \/ AnalyzeReceivedData

\* the same summary with the referring_domains of one Saudi entry raised
RaisedSaudiCount(summary) ==
  {[summary EXCEPT !.top_countries[i].referring_domains = n] :
     i \in SaudiEntries(summary.top_countries),
     n \in 0..(MaxCount + 1)} \ {summary}

\* ------------------------------------------------------------------------
\* generate_simple_response (app/api/v1/endpoints/chat.py)
\* The replies are abridged to their opening lines; the emoji and the Arabic
\* half of a line are left out.
\* ------------------------------------------------------------------------

\* bound on the number of words of a message given to generate_simple_response
MaxWords == 3

\* ["hello", "hi", "hey", "greetings", (Arabic) marhaban, (Arabic) as-salam]
GreetingWords ==
  {<<"h", "e", "l", "l", "o">>,
   <<"h", "i">>,
   <<"h", "e", "y">>,
   <<"g", "r", "e", "e", "t", "i", "n", "g", "s">>,
   <<"AR_MIM", "AR_RA", "AR_HA", "AR_BA", "AR_ALIF">>,
   <<"AR_ALIF", "AR_LAM", "AR_SIN", "AR_LAM", "AR_ALIF", "AR_MIM">> }

\* ["seo", "search", "ranking", "google", (Arabic) search]
SimpleSeoWords ==
  {<<"s", "e", "o">>,
   <<"s", "e", "a", "r", "c", "h">>,
   <<"r", "a", "n", "k", "i", "n", "g">>,
   <<"g", "o", "o", "g", "l", "e">>,
   <<"AR_BA", "AR_HA", "AR_THA">> }

\* ["marketing", "strategy", "campaign", (Arabic) marketing]
SimpleMarketingWords ==
  {<<"m", "a", "r", "k", "e", "t", "i", "n", "g">>,
   <<"s", "t", "r", "a", "t", "e", "g", "y">>,
   <<"c", "a", "m", "p", "a", "i", "g", "n">>,
   <<"AR_TA", "AR_SIN", "AR_WAW", "AR_YA", "AR_QAF">> }

\* ["competitor", "analysis", "research", (Arabic) competitor]
SimpleCompetitorWords ==
  {<<"c", "o", "m", "p", "e", "t", "i", "t", "o", "r">>,
   <<"a", "n", "a", "l", "y", "s", "i", "s">>,
   <<"r", "e", "s", "e", "a", "r", "c", "h">>,
   <<"AR_MIM", "AR_NUN", "AR_ALIF", "AR_FA", "AR_SIN">> }

\* "Hello and welcome! I'm Morvo, your AI Marketing Assistant specializing in
\* the Saudi Arabian market ..."
GreetingReply ==
  <<"H", "e", "l", "l", "o", " ", "a", "n", "d", " ", "w", "e", "l", "c",
    "o", "m", "e", "!", " ", "I", "'", "m", " ", "M", "o", "r", "v", "o",
    ",", " ", "y", "o", "u", "r", " ", "A", "I", " ", "M", "a", "r", "k",
    "e", "t", "i", "n", "g", " ", "A", "s", "s", "i", "s", "t", "a", "n",
    "t", " ", "s", "p", "e", "c", "i", "a", "l", "i", "z", "i", "n", "g",
    " ", "i", "n", " ", "t", "h", "e", " ", "S", "a", "u", "d", "i", " ",
    "A", "r", "a", "b", "i", "a", "n", " ", "m", "a", "r", "k", "e", "t">>

\* "SEO Excellence for Saudi Arabia ..."
SeoReply ==
  <<"S", "E", "O", " ", "E", "x", "c", "e", "l", "l", "e", "n", "c", "e",
    " ", "f", "o", "r", " ", "S", "a", "u", "d", "i", " ", "A", "r", "a",
    "b", "i", "a">>

\* "Strategic Marketing for Saudi Arabia ..."
MarketingReply ==
  <<"S", "t", "r", "a", "t", "e", "g", "i", "c", " ", "M", "a", "r", "k",
    "e", "t", "i", "n", "g", " ", "f", "o", "r", " ", "S", "a", "u", "d",
    "i", " ", "A", "r", "a", "b", "i", "a">>

\* "Comprehensive Competitor Analysis for Saudi Market ..."
CompetitorReply ==
  <<"C", "o", "m", "p", "r", "e", "h", "e", "n", "s", "i", "v", "e", " ",
    "C", "o", "m", "p", "e", "t", "i", "t", "o", "r", " ", "A", "n", "a",
    "l", "y", "s", "i", "s", " ", "f", "o", "r", " ", "S", "a", "u", "d",
    "i", " ", "M", "a", "r", "k", "e", "t">>

\* "Thank you for your question! As your AI Marketing Consultant specializing
\* in Saudi Arabia ... Your Question: (quote)"
DefaultReplyHead ==
  <<"T", "h", "a", "n", "k", " ", "y", "o", "u", " ", "f", "o", "r", " ",
    "y", "o", "u", "r", " ", "q", "u", "e", "s", "t", "i", "o", "n", "!",
    " ", "A", "s", " ", "y", "o", "u", "r", " ", "A", "I", " ", "M", "a",
    "r", "k", "e", "t", "i", "n", "g", " ", "C", "o", "n", "s", "u", "l",
    "t", "a", "n", "t", " ", "s", "p", "e", "c", "i", "a", "l", "i", "z",
    "i", "n", "g", " ", "i", "n", " ", "S", "a", "u", "d", "i", " ", "A",
    "r", "a", "b", "i", "a", ",", " ", "Y", "o", "u", "r", " ", "Q", "u",
    "e", "s", "t", "i", "o", "n", ":", " ", "DQUOTE">>

\* "...(quote) Could you provide more details ..."
DefaultReplyTail ==
  <<".", ".", ".", "DQUOTE", " ", "C", "o", "u", "l", "d", " ", "y", "o",
    "u", " ", "p", "r", "o", "v", "i", "d", "e", " ", "m", "o", "r", "e",
    " ", "d", "e", "t", "a", "i", "l", "s">>

\* content[:50]
First50(content) ==
  SubSeq(content, 1, IF Len(content) < 50 THEN Len(content) ELSE 50)

\* the f-string of the else branch: the message is quoted in the reply
DefaultReply(content) ==
  DefaultReplyHead \o First50(content) \o DefaultReplyTail

\* generate_simple_response: the if / elif chain
GenerateSimpleResponse(content) ==
  LET content_lower == Lower(content)
  IN  IF AnyKeyword(content_lower, GreetingWords) THEN GreetingReply
      ELSE IF AnyKeyword(content_lower, SimpleSeoWords) THEN SeoReply
      ELSE IF AnyKeyword(content_lower, SimpleMarketingWords) THEN MarketingReply
      ELSE IF AnyKeyword(content_lower, SimpleCompetitorWords) THEN CompetitorReply
      ELSE DefaultReply(content)

\* --- the messages of the model: up to MaxWords words joined by blanks ---

\* "Hi", "seo", "strategy", "research", "competitor", "text"
SimpleWords ==
  {<<"H", "i">>,
   <<"s", "e", "o">>,
   <<"s", "t", "r", "a", "t", "e", "g", "y">>,
   <<"r", "e", "s", "e", "a", "r", "c", "h">>,
   <<"c", "o", "m", "p", "e", "t", "i", "t", "o", "r">>,
   <<"t", "e", "x", "t">> }

RECURSIVE JoinWords(_)
\* " ".join(words)
JoinWords(words) ==
  IF words = <<>> THEN <<>>
  ELSE IF Len(words) = 1 THEN words[1]
  ELSE words[1] \o <<" ">> \o JoinWords(Tail(words))

SimpleContents ==
  {JoinWords(words) : words \in UNION {[1..n -> SimpleWords] : n \in 0..MaxWords}}

\* simple_chat_message calls generate_simple_response(message.content)
SimpleChatMessage(content) ==
  /\ simple_response = <<>>
  /\ simple_content' = content
  /\ simple_response' = GenerateSimpleResponse(content)
  /\ UNCHANGED <<core_vars, score_vars, history_vars, sr_vars, auth_vars>>

SimpleNext ==
  \E content \in SimpleContents : SimpleChatMessage(content)

\* the keyword groups in the order of the chain, and the word each reply
\* is expected to contain
SimpleGroups ==
  <<GreetingWords, SimpleSeoWords, SimpleMarketingWords, SimpleCompetitorWords>>

SimpleMarkers ==
  << <<"h", "e", "l", "l", "o">>,
     <<"s", "e", "o">>,
     <<"m", "a", "r", "k", "e", "t", "i", "n", "g">>,
     <<"c", "o", "m", "p", "e", "t", "i", "t", "o", "r">> >>

\* "ai marketing assistant"
DefaultMarker ==
  <<"a", "i", " ", "m", "a", "r", "k", "e", "t", "i", "n", "g", " ", "a",
    "s", "s", "i", "s", "t", "a", "n", "t">>

\* the groups of which the message contains a word
MatchingSimpleGroups(content) ==
  {g \in DOMAIN SimpleGroups : AnyKeyword(Lower(content), SimpleGroups[g])}

\* ------------------------------------------------------------------------
\* EnterpriseeChatService._get_conversation_history
\* created_at of a turn is its position in `turns` (the turns of the model
\* are stored one after the other).
\* ------------------------------------------------------------------------

\* bound on the number of turns stored in the conversation
MaxTurns == 22

\* .limit(20)
HistoryLimit == 20

\* the rows of ConversationTurn with their created_at
TurnRows ==
  [i \in 1..Len(turns) |->
     [conversation_id |-> turns[i].conversation_id,
      role            |-> turns[i].role,
      created_at      |-> i]]

\* select(ConversationTurn).where(conversation_id == ...)
\*   .order_by(ConversationTurn.created_at).limit(20), then one dict per turn
GetConversationHistory(conversation_id) ==
  LET rows    == SelectSeq(TurnRows, LAMBDA t : t.conversation_id = conversation_id)
      limited == SubSeq(rows, 1, Min({HistoryLimit, Len(rows)}))
  IN  [i \in 1..Len(limited) |->
         [role |-> limited[i].role, timestamp |-> limited[i].created_at]]

NoHistory ==
  [read |-> FALSE, conversation_id |-> NoRow, total |-> 0, rows |-> <<>>]

HistoryInit ==
  history = NoHistory

\* the first message of a guest: the user and the conversation are stored
OpenConversation(client_id) ==
  /\ users = <<>>
  /\ conversations = <<>>
  /\ users' = <<NewGuestUser(client_id)>>
  /\ conversations' = <<NewConversation(1)>>
  /\ UNCHANGED <<cultural_contexts, turns, chat_vars, coord_vars, ext_vars>>

\* _create_conversation_turn, one call after the other: the user's message,
\* then the reply, and so on
StoreTurn(c) ==
  /\ c \in DOMAIN conversations
  /\ Len(turns) < MaxTurns
  /\ LET row  == conversations[c]
         role == IF row.user_messages_count = row.agent_messages_count
                 THEN "user" ELSE "assistant"
     IN  /\ turns' = Append(turns, [conversation_id |-> c,
                                    turn_number |-> NextTurnNumber(row.total_turns),
                                    role |-> role])
         /\ conversations' = [conversations EXCEPT
              ![c].total_turns = IncrementCounter(row.total_turns),
              ![c].user_messages_count =
                  IF role = "user" THEN IncrementCounter(@) ELSE @,
              ![c].agent_messages_count =
                  IF role = "user" THEN @ ELSE IncrementCounter(@)]
  /\ UNCHANGED <<users, cultural_contexts, chat_vars, coord_vars, ext_vars>>

\* process_message builds the agents' context: conversation_history is
\* _get_conversation_history(conversation.id); `total` remembers how many
\* turns the conversation had at that moment
ReadHistory(c) ==
  /\ c \in DOMAIN conversations
  /\ history' = [read            |-> TRUE,
                 conversation_id |-> c,
                 total           |-> Len(TurnsOf(c)),
                 rows            |-> GetConversationHistory(c)]
  /\ UNCHANGED <<core_vars, score_vars, simple_vars, sr_vars, auth_vars>>

HistoryNext ==
  \/ \E cl \in Clients : OpenConversation(cl)
  \/ \E c \in DOMAIN conversations : StoreTurn(c)
  \/ \E c \in DOMAIN conversations : ReadHistory(c)

\* ------------------------------------------------------------------------
\* POST /seranking/analyze/{domain} and analyze_website_task
\* A row of `domains` is a SERankingDomain (its id is its position), a row of
\* `analyses` a SERankingBacklinkAnalysis; task_queue holds the calls of
\* analyze_website_task.delay not yet run.  Each of the sessions of Procs
\* serves one request or one task run at a time.
\* ------------------------------------------------------------------------

\* bound on the number of requests and task runs started
MaxRuns == 3

DomainNames ==
  {"example.com"}

Callers ==
  {"u1"}

Environments ==
  {"testing", "production"}

\* user_identifier of analyze_domain
UserIdentifier(environment, current_user) ==
  IF environment = "testing" THEN "user_id_from_auth" ELSE current_user

\* SERankingDomain(domain_name=..., user_id=...): analysis_status defaults
\* to "pending"
NewDomain(domain_name, user_id) ==
  [domain_name |-> domain_name, user_id |-> user_id, analysis_status |-> "pending"]

\* the rows select(SERankingDomain).where(domain_name == ...) finds
DomainsByName(domain_name) ==
  {d \in DOMAIN domains : domains[d].domain_name = domain_name}

\* the keys of analysis_data in analyze_website_task
AnalysisDataKeys ==
  {"domain_id", "user_id", "total_backlinks", "referring_domains",
   "backlink_details", "status", "timestamp"}

\* the attributes of SERankingBacklinkAnalysis
BacklinkAnalysisAttributes ==
  {"id", "user_id", "domain_id", "analysis_date", "total_backlinks",
   "referring_domains", "high_quality_links", "medium_quality_links",
   "low_quality_links", "backlink_details", "anchor_text_analysis",
   "link_velocity", "analysis_notes", "recommendations", "created_at",
   "updated_at", "user", "domain"}

\* SERankingBacklinkAnalysis(**analysis_data): the constructor of a
\* declarative_base() class raises TypeError for a keyword that is not an
\* attribute of the class
ConstructorAccepts(keys) ==
  keys \subseteq BacklinkAnalysisAttributes

\* locals of a request or task run; the flags record what the run has done
NoSrLoc ==
  [kind |-> "none", domain |-> "", user_id |-> "", domain_obj |-> NoRow,
   persisted |-> FALSE, completed |-> FALSE, raised |-> FALSE,
   set_failed |-> FALSE, retry |-> FALSE, closed |-> FALSE]

\* what a finished request or run has done; success / scheduled belong to
\* the endpoint's answer ("none": nothing finished yet)
NoSrResult ==
  [kind |-> "none", success |-> FALSE, scheduled |-> 0, domain_obj |-> NoRow,
   persisted |-> FALSE, completed |-> FALSE, raised |-> FALSE,
   set_failed |-> FALSE, retry |-> FALSE, closed |-> FALSE]

SrResult(l, success, scheduled) ==
  [kind |-> l.kind, success |-> success, scheduled |-> scheduled,
   domain_obj |-> l.domain_obj,
   persisted |-> l.persisted, completed |-> l.completed, raised |-> l.raised,
   set_failed |-> l.set_failed, retry |-> l.retry, closed |-> l.closed]

SrInit ==
  /\ domains = <<>>
  /\ analyses = <<>>
  /\ task_queue = <<>>
  /\ sr_pc = [p \in Procs |-> "idle"]
  /\ sr_loc = [p \in Procs |-> NoSrLoc]
  /\ sr_last = [p \in Procs |-> NoSrResult]
  /\ sr_started = 0

\* the request or run on session p ends with `result`
SrReturn(p, result) ==
  /\ sr_pc' = [sr_pc EXCEPT ![p] = "idle"]
  /\ sr_loc' = [sr_loc EXCEPT ![p] = NoSrLoc]
  /\ sr_last' = [sr_last EXCEPT ![p] = result]

\* analyze_domain is entered
AnalyzeDomain(p, domain, current_user, environment) ==
  /\ sr_pc[p] = "idle"
  /\ sr_started < MaxRuns
  /\ sr_started' = sr_started + 1
  /\ sr_pc' = [sr_pc EXCEPT ![p] = "get_domain"]
  /\ sr_loc' = [sr_loc EXCEPT ![p] =
                  [NoSrLoc EXCEPT !.kind = "request", !.domain = domain,
                                  !.user_id = UserIdentifier(environment, current_user)]]
  /\ sr_last' = [sr_last EXCEPT ![p] = NoSrResult]
  /\ UNCHANGED <<domains, analyses, task_queue>>
  /\ UNCHANGED <<core_vars, score_vars, simple_vars, history_vars, auth_vars>>

\* a worker takes the next queued call and analyze_website_task is entered
AnalyzeWebsiteTask(p) ==
  /\ sr_pc[p] = "idle"
  /\ sr_started < MaxRuns
  /\ task_queue # <<>>
  /\ sr_started' = sr_started + 1
  /\ task_queue' = Tail(task_queue)
  /\ sr_pc' = [sr_pc EXCEPT ![p] = "get_domain"]
  /\ sr_loc' = [sr_loc EXCEPT ![p] =
                  [NoSrLoc EXCEPT !.kind = "task",
                                  !.domain = Head(task_queue).domain,
                                  !.user_id = Head(task_queue).user_id]]
  /\ sr_last' = [sr_last EXCEPT ![p] = NoSrResult]
  /\ UNCHANGED <<domains, analyses>>
  /\ UNCHANGED <<core_vars, score_vars, simple_vars, history_vars, auth_vars>>

\* get_domain_by_name: scalar_one_or_none() gives None, the row, or raises
\* MultipleResultsFound
GetDomainByName(p) ==
  /\ sr_pc[p] = "get_domain"
  /\ LET rows == DomainsByName(sr_loc[p].domain)
     IN  IF rows = {}
         THEN /\ sr_pc' = [sr_pc EXCEPT ![p] = "create_domain"]
              /\ UNCHANGED sr_loc
         ELSE IF Cardinality(rows) = 1
         THEN /\ sr_loc' = [sr_loc EXCEPT ![p].domain_obj = CHOOSE d \in rows : TRUE]
              /\ sr_pc' = [sr_pc EXCEPT ![p] =
                   IF sr_loc[p].kind = "request" THEN "add_task" ELSE "analyze"]
         ELSE /\ sr_loc' = [sr_loc EXCEPT ![p].raised = TRUE]
              /\ sr_pc' = [sr_pc EXCEPT ![p] = "except"]
  /\ UNCHANGED <<domains, analyses, task_queue, sr_last, sr_started>>
  /\ UNCHANGED <<core_vars, score_vars, simple_vars, history_vars, auth_vars>>

\* create_domain: the row is committed, or the commit fails and
\* DatabaseError is raised
CreateDomain(p) ==
  /\ sr_pc[p] = "create_domain"
  /\ \E committed \in BOOLEAN :
       IF committed
       THEN /\ domains' = Append(domains, NewDomain(sr_loc[p].domain, sr_loc[p].user_id))
            /\ sr_loc' = [sr_loc EXCEPT ![p].domain_obj = Len(domains) + 1]
            /\ sr_pc' = [sr_pc EXCEPT ![p] =
                 IF sr_loc[p].kind = "request" THEN "add_task" ELSE "analyze"]
       ELSE /\ sr_loc' = [sr_loc EXCEPT ![p].raised = TRUE]
            /\ sr_pc' = [sr_pc EXCEPT ![p] = "except"]
            /\ UNCHANGED domains
  /\ UNCHANGED <<analyses, task_queue, sr_last, sr_started>>
  /\ UNCHANGED <<core_vars, score_vars, simple_vars, history_vars, auth_vars>>

\* analyze_domain: background_tasks.add_task(analyze_website_task.delay,
\* domain, user_identifier) and the answer
AddTaskAndAnswer(p) ==
  /\ sr_pc[p] = "add_task"
  /\ task_queue' = Append(task_queue, [domain |-> sr_loc[p].domain,
                                        user_id |-> sr_loc[p].user_id])
  /\ SrReturn(p, SrResult(sr_loc[p], TRUE, 1))
  /\ UNCHANGED <<domains, analyses, sr_started>>
  /\ UNCHANGED <<core_vars, score_vars, simple_vars, history_vars, auth_vars>>

\* analyze_domain, except Exception: HTTPException(status_code=500)
AnswerServerError(p) ==
  /\ sr_pc[p] = "except"
  /\ sr_loc[p].kind = "request"
  /\ SrReturn(p, SrResult(sr_loc[p], FALSE, 0))
  /\ UNCHANGED <<domains, analyses, task_queue, sr_started>>
  /\ UNCHANGED <<core_vars, score_vars, simple_vars, history_vars, auth_vars>>

\* analyze_website_task from analyze_backlinks to update_domain_status(
\* "completed"): the vendor call, the check of "success", summary[0], the
\* insert of the analysis and the status update, each of which may raise
AnalyzeAndStore(p) ==
  /\ sr_pc[p] = "analyze"
  /\ \E outcome \in VendorOutcomes, summary_len \in 0..1,
        committed \in BOOLEAN, updated \in BOOLEAN :
       IF /\ AnalyzeBacklinks(outcome) = "ok"
          /\ summary_len > 0
          /\ ConstructorAccepts(AnalysisDataKeys)
          /\ committed
       THEN /\ analyses' = Append(analyses, [domain_id |-> sr_loc[p].domain_obj,
                                             user_id |-> sr_loc[p].user_id])
            /\ IF updated
               THEN /\ domains' = [domains EXCEPT
                         ![sr_loc[p].domain_obj].analysis_status = "completed"]
                    /\ sr_loc' = [sr_loc EXCEPT ![p].persisted = TRUE,
                                                ![p].completed = TRUE]
                    /\ sr_pc' = [sr_pc EXCEPT ![p] = "finally"]
               ELSE /\ sr_loc' = [sr_loc EXCEPT ![p].persisted = TRUE,
                                                ![p].raised = TRUE]
                    /\ sr_pc' = [sr_pc EXCEPT ![p] = "except"]
                    /\ UNCHANGED domains
       ELSE /\ sr_loc' = [sr_loc EXCEPT ![p].raised = TRUE]
            /\ sr_pc' = [sr_pc EXCEPT ![p] = "except"]
            /\ UNCHANGED <<domains, analyses>>
  /\ UNCHANGED <<task_queue, sr_last, sr_started>>
  /\ UNCHANGED <<core_vars, score_vars, simple_vars, history_vars, auth_vars>>

\* analyze_website_task, except Exception: update_domain_status(id,
\* "failed") when the domain was resolved, then self.retry(exc=exc), which
\* sends the task again; when update_domain_status raises DatabaseError the
\* handler is left before self.retry
HandleTaskFailure(p) ==
  /\ sr_pc[p] = "except"
  /\ sr_loc[p].kind = "task"
  /\ \E updated \in BOOLEAN :
       IF sr_loc[p].domain_obj = NoRow
       THEN /\ task_queue' = Append(task_queue, [domain |-> sr_loc[p].domain,
                                                 user_id |-> sr_loc[p].user_id])
            /\ sr_loc' = [sr_loc EXCEPT ![p].retry = TRUE]
            /\ UNCHANGED domains
       ELSE IF updated
       THEN /\ domains' = [domains EXCEPT
                 ![sr_loc[p].domain_obj].analysis_status = "failed"]
            /\ task_queue' = Append(task_queue, [domain |-> sr_loc[p].domain,
                                                 user_id |-> sr_loc[p].user_id])
            /\ sr_loc' = [sr_loc EXCEPT ![p].set_failed = TRUE, ![p].retry = TRUE]
       ELSE UNCHANGED <<domains, task_queue, sr_loc>>
  /\ sr_pc' = [sr_pc EXCEPT ![p] = "finally"]
  /\ UNCHANGED <<analyses, sr_last, sr_started>>
  /\ UNCHANGED <<core_vars, score_vars, simple_vars, history_vars, auth_vars>>

\* analyze_website_task, finally: seranking_service.close(), and the run ends
CloseService(p) ==
  /\ sr_pc[p] = "finally"
  /\ SrReturn(p, SrResult([sr_loc[p] EXCEPT !.closed = TRUE], FALSE, 0))
  /\ UNCHANGED <<domains, analyses, task_queue, sr_started>>
  /\ UNCHANGED <<core_vars, score_vars, simple_vars, history_vars, auth_vars>>

DomainNext ==
  \/ \E p \in Procs, domain \in DomainNames, current_user \in Callers,
        environment \in Environments :
          AnalyzeDomain(p, domain, current_user, environment)
  \/ \E p \in Procs : AnalyzeWebsiteTask(p)
  \/ \E p \in Procs : GetDomainByName(p)
  \/ \E p \in Procs : CreateDomain(p)
  \/ \E p \in Procs : AddTaskAndAnswer(p)
  \/ \E p \in Procs : AnswerServerError(p)
  \/ \E p \in Procs : AnalyzeAndStore(p)
  \/ \E p \in Procs : HandleTaskFailure(p)
  \/ \E p \in Procs : CloseService(p)

\* ------------------------------------------------------------------------
\* POST /auth/register and POST /auth/token (app/api/v1/endpoints/auth.py)
\* An e-mail address is a sequence of characters with one "@"; a password
\* is a token.  register_user runs on a session of Procs in two steps, the
\* select and the insert; login_access_token is one step.
\* ------------------------------------------------------------------------

\* bound on the number of register and login calls
MaxAuthCalls == 3

EmailInputs ==
  { <<"a", "@", "x">>, <<"a", "@", "X">>, <<"A", "@", "x">> }

Passwords ==
  {"p1", "p2"}

\* the position of the "@" that separates local part and domain
AtIndex(email) ==
  Max({i \in DOMAIN email : email[i] = "@"})

\* UserCreate.email is an EmailStr: validation returns the normalized
\* address, the local part as given and the domain in lower case
NormalizeEmail(email) ==
  SubSeq(email, 1, AtIndex(email)) \o
    Lower(SubSeq(email, AtIndex(email) + 1, Len(email)))

\* get_password_hash: pwd_context.hash(password)
GetPasswordHash(password) ==
  <<"bcrypt", password>>

\* verify_password: pwd_context.verify(plain, hashed) is True or False for a
\* bcrypt hash and raises UnknownHashError for any other string
VerifyPassword(plain_password, hashed_password) ==
  IF Len(hashed_password) = 2 /\ hashed_password[1] = "bcrypt"
  THEN IF hashed_password[2] = plain_password THEN "true" ELSE "false"
  ELSE "raised"

NoAuthRequest ==
  [call |-> 0, email |-> <<>>, password |-> ""]

\* the answer to a call: the number of the call, the endpoint, the e-mail and
\* password as sent, the HTTP status and the token_type of a Token (status 0:
\* no answer yet)
NoAuthResult ==
  [call |-> 0, op |-> "none", email |-> <<>>, password |-> "", status |-> 0,
   token_type |-> ""]

AuthResult(call, op, email, password, status, token_type) ==
  [call |-> call, op |-> op, email |-> email, password |-> password,
   status |-> status, token_type |-> token_type]

\* the answer of register_user to request r
RegisterResult(r, status) ==
  AuthResult(r.call, "register", r.email, r.password, status, "")

AuthInit ==
  /\ auth_pc = [p \in Procs |-> "idle"]
  /\ auth_req = [p \in Procs |-> NoAuthRequest]
  /\ auth_last = [p \in Procs |-> NoAuthResult]
  /\ auth_started = 0

\* register_user is entered with a validated UserCreate
RegisterUser(p, email, password) ==
  /\ auth_pc[p] = "idle"
  /\ auth_started < MaxAuthCalls
  /\ auth_started' = auth_started + 1
  /\ auth_pc' = [auth_pc EXCEPT ![p] = "select_user"]
  /\ auth_req' = [auth_req EXCEPT ![p] =
                    [call |-> auth_started + 1, email |-> email, password |-> password]]
  /\ auth_last' = [auth_last EXCEPT ![p] = NoAuthResult]
  /\ UNCHANGED <<core_vars, score_vars, simple_vars, history_vars, sr_vars>>

\* register_user: the select by user_in.email; 400 when a user is found
RegisterSelectUser(p) ==
  /\ auth_pc[p] = "select_user"
  /\ IF UsersByEmail(NormalizeEmail(auth_req[p].email)) # {}
     THEN /\ auth_pc' = [auth_pc EXCEPT ![p] = "idle"]
          /\ auth_req' = [auth_req EXCEPT ![p] = NoAuthRequest]
          /\ auth_last' = [auth_last EXCEPT ![p] =
               RegisterResult(auth_req[p], 400)]
     ELSE /\ auth_pc' = [auth_pc EXCEPT ![p] = "insert_user"]
          /\ UNCHANGED <<auth_req, auth_last>>
  /\ UNCHANGED auth_started
  /\ UNCHANGED <<core_vars, score_vars, simple_vars, history_vars, sr_vars>>

\* register_user: db.add(db_user) and db.commit(); users.email is unique,
\* so the commit raises IntegrityError (HTTP 500) when the e-mail has been
\* stored in the meantime
RegisterInsertUser(p) ==
  /\ auth_pc[p] = "insert_user"
  /\ LET email == NormalizeEmail(auth_req[p].email)
     IN  IF UsersByEmail(email) = {}
         THEN /\ users' = Append(users,
                     [email           |-> email,
                      hashed_password |-> GetPasswordHash(auth_req[p].password),
                      is_active       |-> TRUE])
              /\ auth_last' = [auth_last EXCEPT ![p] =
                   RegisterResult(auth_req[p], 200)]
         ELSE /\ UNCHANGED users
              /\ auth_last' = [auth_last EXCEPT ![p] =
                   RegisterResult(auth_req[p], 500)]
  /\ auth_pc' = [auth_pc EXCEPT ![p] = "idle"]
  /\ auth_req' = [auth_req EXCEPT ![p] = NoAuthRequest]
  /\ UNCHANGED <<cultural_contexts, conversations, turns, chat_vars, coord_vars>>
  /\ UNCHANGED <<auth_started, score_vars, simple_vars, history_vars, sr_vars>>

\* login_access_token (and the legacy /login/access-token, which calls it):
\* the select by form_data.username, verify_password, is_active, the Token
LoginAccessToken(p, username, password) ==
  /\ auth_pc[p] = "idle"
  /\ auth_started < MaxAuthCalls
  /\ auth_started' = auth_started + 1
  /\ LET rows == UsersByEmail(username)
         user == users[CHOOSE u \in rows : TRUE]
         answer ==
           IF rows = {} THEN AuthResult(auth_started + 1, "login", username, password, 401, "")
           ELSE IF VerifyPassword(password, user.hashed_password) = "raised"
           THEN AuthResult(auth_started + 1, "login", username, password, 500, "")
           ELSE IF VerifyPassword(password, user.hashed_password) = "false"
           THEN AuthResult(auth_started + 1, "login", username, password, 401, "")
           ELSE IF ~user.is_active
           THEN AuthResult(auth_started + 1, "login", username, password, 400, "")
           ELSE AuthResult(auth_started + 1, "login", username, password, 200, "bearer")
     IN  auth_last' = [auth_last EXCEPT ![p] = answer]
  /\ UNCHANGED <<auth_pc, auth_req>>
  /\ UNCHANGED <<core_vars, score_vars, simple_vars, history_vars, sr_vars>>

AuthNext ==
  \/ \E p \in Procs, email \in EmailInputs, password \in Passwords :
        RegisterUser(p, email, password)
  \/ \E p \in Procs : RegisterSelectUser(p)
  \/ \E p \in Procs : RegisterInsertUser(p)
  \/ \E p \in Procs, username \in EmailInputs, password \in Passwords :
        LoginAccessToken(p, username, password)


SimpleInit ==
  /\ simple_content = <<>>
  /\ simple_response = <<>>

ExtInit ==
  ScoreInit /\ SimpleInit /\ HistoryInit /\ SrInit /\ AuthInit

Init ==
  CoordInit /\ ChatInit /\ ExtInit

\* passes of the coordinator on their own
CoordSpec ==
  Init /\ [][CoordNext]_vars

\* process_message returns `response`
Return(p, response) ==
  /\ pc' = [pc EXCEPT ![p] = "idle"]
  /\ req' = [req EXCEPT ![p] = NoRequest]
  /\ loc' = [loc EXCEPT ![p] = InitialLoc]
  /\ last' = [last EXCEPT ![p] = response]

\* a CulturalContext row is stored for a user (user_id is unique)
StoreCulturalContext(user) ==
  /\ user \in DOMAIN users
  /\ user \notin cultural_contexts
  /\ cultural_contexts' = cultural_contexts \cup {user}
  /\ UNCHANGED <<users, conversations, turns, chat_vars, coord_vars, ext_vars>>

\* Conversation.complete_conversation applied to a stored conversation
CompleteConversation(c) ==
  /\ c \in DOMAIN conversations
  /\ ~conversations[c].is_completed
  /\ conversations' = [conversations EXCEPT ![c] = CompleteRow(@)]
  /\ UNCHANGED <<users, cultural_contexts, turns, chat_vars, coord_vars, ext_vars>>

\* process_message is entered and _get_or_create_user runs: the user row of
\* user_id, else a new guest row (IntegrityError when the guest e-mail of the
\* client is taken: users.email is unique)
ProcessMessage(p, client_id, user_id, content) ==
  /\ pc[p] = "idle"
  /\ started < MaxRequests
  /\ started' = started + 1
  /\ IF user_id # NoRow /\ user_id \in DOMAIN users
     THEN /\ pc' = [pc EXCEPT ![p] = "select_conv"]
          /\ loc' = [loc EXCEPT ![p] = [InitialLoc EXCEPT !.user = user_id]]
          /\ req' = [req EXCEPT ![p] = [client_id |-> client_id,
                                        user_id |-> user_id, content |-> content]]
          /\ last' = [last EXCEPT ![p] = NoResponse]
          /\ UNCHANGED users
     ELSE IF UsersByEmail(EmailOfClient(client_id)) = {}
     THEN /\ users' = Append(users, NewGuestUser(client_id))
          /\ pc' = [pc EXCEPT ![p] = "select_conv"]
          /\ loc' = [loc EXCEPT ![p] = [InitialLoc EXCEPT !.user = Len(users) + 1]]
          /\ req' = [req EXCEPT ![p] = [client_id |-> client_id,
                                        user_id |-> user_id, content |-> content]]
          /\ last' = [last EXCEPT ![p] = NoResponse]
     ELSE /\ Return(p, HandleException(InitialLoc, "user"))
          /\ UNCHANGED users
  /\ UNCHANGED <<cultural_contexts, conversations, turns, coord_vars, ext_vars>>

\* _get_or_create_conversation, the select: scalar_one_or_none() gives None,
\* the row, or raises MultipleResultsFound
SelectConversation(p) ==
  /\ pc[p] = "select_conv"
  /\ LET rows == ActiveConversations(loc[p].user)
     IN  IF rows = {}
         THEN /\ pc' = [pc EXCEPT ![p] = "insert_conv"]
              /\ UNCHANGED <<req, loc, last>>
         ELSE IF Cardinality(rows) = 1
         THEN LET c == CHOOSE r \in rows : TRUE
              IN  /\ loc' = [loc EXCEPT ![p].conv = c,
                                        ![p].picked_completed =
                                            conversations[c].is_completed]
                  /\ pc' = [pc EXCEPT ![p] = "read_user_turn"]
                  /\ UNCHANGED <<req, last>>
         ELSE Return(p, HandleException(loc[p], "conversation"))
  /\ UNCHANGED <<db_vars, started, coord_vars, ext_vars>>

\* _get_or_create_conversation, the insert of a new active conversation
InsertConversation(p) ==
  /\ pc[p] = "insert_conv"
  /\ conversations' = Append(conversations, NewConversation(loc[p].user))
  /\ loc' = [loc EXCEPT ![p].conv = Len(conversations) + 1]
  /\ pc' = [pc EXCEPT ![p] = "read_user_turn"]
  /\ UNCHANGED <<users, cultural_contexts, turns, req, last, started, coord_vars, ext_vars>>

\* _get_cultural_context (before the user turn) and the read of the
\* conversation row at `conversation.total_turns + 1`
ReadConversation(p) ==
  /\ pc[p] \in {"read_user_turn", "read_agent_turn"}
  /\ LET row == conversations[loc[p].conv]
     IN  loc' = [loc EXCEPT
           ![p].total_turns = row.total_turns,
           ![p].user_messages_count = row.user_messages_count,
           ![p].agent_messages_count = row.agent_messages_count,
           ![p].has_context = IF pc[p] = "read_user_turn"
                              THEN loc[p].user \in cultural_contexts
                              ELSE @]
  /\ pc' = [pc EXCEPT ![p] = IF pc[p] = "read_user_turn"
                             THEN "commit_user_turn" ELSE "commit_agent_turn"]
  /\ UNCHANGED <<db_vars, req, last, started, coord_vars, ext_vars>>

\* _create_conversation_turn: the turn and the counters are committed
CommitTurn(p) ==
  /\ pc[p] \in {"commit_user_turn", "commit_agent_turn"}
  /\ LET role == IF pc[p] = "commit_user_turn" THEN "user" ELSE "assistant"
         c    == loc[p].conv
         l    == loc[p]
     IN  /\ turns' = Append(turns, [conversation_id |-> c,
                                    turn_number |-> NextTurnNumber(l.total_turns),
                                    role |-> role])
         /\ conversations' = [conversations EXCEPT
              ![c].total_turns = IncrementCounter(l.total_turns),
              ![c].user_messages_count =
                  IF role = "user" THEN IncrementCounter(l.user_messages_count) ELSE @,
              ![c].agent_messages_count =
                  IF role = "user" THEN @ ELSE IncrementCounter(l.agent_messages_count)]
         /\ loc' = [loc EXCEPT
              ![p].user_turns = IF role = "user" THEN @ + 1 ELSE @,
              ![p].agent_turns = IF role = "user" THEN @ ELSE @ + 1]
         /\ pc' = [pc EXCEPT ![p] = IF role = "user" THEN "master_agent"
                                    ELSE "metadata"]
  /\ UNCHANGED <<users, cultural_contexts, req, last, started, coord_vars, ext_vars>>

\* _create_conversation_turn when the state store fails: db.commit() raises
\* and nothing of the turn is stored
CommitTurnFails(p) ==
  /\ pc[p] \in {"commit_user_turn", "commit_agent_turn"}
  /\ Return(p, HandleException(loc[p], "store"))
  /\ UNCHANGED <<db_vars, started, coord_vars, ext_vars>>

\* _process_with_master_agent: one coordination pass; the two vendor calls
\* end in any of their outcomes
ProcessWithMasterAgent(p) ==
  /\ pc[p] = "master_agent"
  /\ LET required    == DetermineRequiredAgents(req[p].content)
         website_url == ExtractWebsiteUrl(req[p].content)
     IN  \E o_perplexity \in VendorOutcomes, o_seranking \in VendorOutcomes :
           LET outcomes == [a \in Agents |->
                              CASE a = "perplexity" -> o_perplexity
                                [] a = "seranking"  -> o_seranking
                                [] OTHER            -> "ok"]
               result   == CoordinateMarketingAnalysis(required, website_url, outcomes)
           IN  loc' = [loc EXCEPT ![p].summary = result.summary,
                                  ![p].activated = result.activated_agents]
  /\ pc' = [pc EXCEPT ![p] = "cultural"]
  /\ UNCHANGED <<db_vars, req, last, started, coord_vars, ext_vars>>

\* _apply_cultural_intelligence: the default framing and one note when the
\* user has no CulturalContext; otherwise adapt_response_for_culture, which
\* CulturalContextAgent does not define, so the call raises
ApplyCulturalIntelligence(p) ==
  /\ pc[p] = "cultural"
  /\ IF ~loc[p].has_context
     THEN /\ loc' = [loc EXCEPT ![p].cultural_notes = 1,
                                ![p].content = AddDefaultCulturalContext(loc[p].summary)]
          /\ pc' = [pc EXCEPT ![p] = "read_agent_turn"]
          /\ UNCHANGED <<req, last>>
     ELSE Return(p, HandleException(loc[p], "adaptation"))
  /\ UNCHANGED <<db_vars, started, coord_vars, ext_vars>>

\* _update_conversation_metadata (key_outcomes and business value only:
\* involved_agents is left as it is) and the return of the ChatResponse
ReturnResponse(p) ==
  /\ pc[p] = "metadata"
  /\ Return(p, ChatResponse(loc[p]))
  /\ UNCHANGED <<db_vars, started, coord_vars, ext_vars>>

Next ==
  \/ \E u \in DOMAIN users : StoreCulturalContext(u)
  \/ \E c \in DOMAIN conversations : CompleteConversation(c)
  \/ \E p \in Procs, cl \in Clients, u \in {NoRow} \cup DOMAIN users,
        m \in ChatMessages : ProcessMessage(p, cl, u, m)
  \/ \E p \in Procs : SelectConversation(p)
  \/ \E p \in Procs : InsertConversation(p)
  \/ \E p \in Procs : ReadConversation(p)
  \/ \E p \in Procs : CommitTurn(p)
  \/ \E p \in Procs : CommitTurnFails(p)
  \/ \E p \in Procs : ProcessWithMasterAgent(p)
  \/ \E p \in Procs : ApplyCulturalIntelligence(p)
  \/ \E p \in Procs : ReturnResponse(p)

Spec ==
  Init /\ [][Next]_vars

\* the same service when the caller sends one message at a time: a call is
\* started only when no other call is being served
ProcessMessageAlone(p, client_id, user_id, content) ==
  /\ \A q \in Procs : pc[q] = "idle"
  /\ ProcessMessage(p, client_id, user_id, content)

SeqNext ==
  \/ \E u \in DOMAIN users : StoreCulturalContext(u)
  \/ \E c \in DOMAIN conversations : CompleteConversation(c)
  \/ \E p \in Procs, cl \in Clients, u \in {NoRow} \cup DOMAIN users,
        m \in ChatMessages : ProcessMessageAlone(p, cl, u, m)
  \/ \E p \in Procs : SelectConversation(p)
  \/ \E p \in Procs : InsertConversation(p)
  \/ \E p \in Procs : ReadConversation(p)
  \/ \E p \in Procs : CommitTurn(p)
  \/ \E p \in Procs : CommitTurnFails(p)
  \/ \E p \in Procs : ProcessWithMasterAgent(p)
  \/ \E p \in Procs : ApplyCulturalIntelligence(p)
  \/ \E p \in Procs : ReturnResponse(p)

SeqSpec ==
  Init /\ [][SeqNext]_vars

\* the relevance score of every backlink summary of the model
ScoreSpec ==
  Init /\ [][ScoreNext]_vars

\* generate_simple_response applied to every message of the model
SimpleSpec ==
  Init /\ [][SimpleNext]_vars

\* one conversation growing turn by turn, its history read at any moment
HistorySpec ==
  Init /\ [][HistoryNext]_vars

\* analysis requests and the task runs they queue, on two sessions
DomainSpec ==
  Init /\ [][DomainNext]_vars

\* register and login calls on two sessions
AuthSpec ==
  Init /\ [][AuthNext]_vars

\* one step of the call served on session p
Step(p) ==
  \/ SelectConversation(p)
  \/ InsertConversation(p)
  \/ ReadConversation(p)
  \/ CommitTurn(p)
  \/ CommitTurnFails(p)
  \/ ProcessWithMasterAgent(p)
  \/ ApplyCulturalIntelligence(p)
  \/ ReturnResponse(p)

\* the service, one message at a time, when every database operation and
\* every vendor call of the call being served eventually returns or fails
\* (a call never waits for another call, so the steps of the call being
\* served are the only ones that need to be scheduled)
LiveSpec ==
  Init /\ [][SeqNext]_vars /\ \A p \in Procs : WF_vars(Step(p))

\* ------------------------------------------------------------------------
\* Properties
\* ------------------------------------------------------------------------

\* C1: in every reachable state no user has two active conversations, also
\* when process_message calls for the same user run concurrently.
C1_OneActiveConversationPerUser ==
  \A u \in DOMAIN users : Cardinality(ActiveConversations(u)) <= 1

\* C2: when the calls do not overlap (SeqSpec), the turns of every
\* conversation, in commit order, carry the numbers 1, 2, ..., total_turns.
C2_TurnNumbersContiguous ==
  \A c \in DOMAIN conversations :
    /\ Len(TurnsOf(c)) = conversations[c].total_turns
    /\ \A i \in 1..Len(TurnsOf(c)) : TurnsOf(c)[i].turn_number = i

\* two passes have been recorded in one conversation and both calls returned
C2_TwoPassesRecorded ==
  /\ \A p \in Procs : pc[p] = "idle"
  /\ \E p \in Procs : last[p].agent = "master_agent"
  /\ \E c \in DOMAIN conversations :
       conversations[c].total_turns = 4 /\ Len(TurnsOf(c)) = 4

\* C3: under concurrent calls no two turns of a conversation share a
\* turn_number and total_turns equals the number of persisted turns.
C3_TurnNumbersUnique ==
  \A c \in DOMAIN conversations :
    /\ \A i, j \in 1..Len(TurnsOf(c)) :
         i # j => TurnsOf(c)[i].turn_number # TurnsOf(c)[j].turn_number
    /\ conversations[c].total_turns = Len(TurnsOf(c))

\* C4: every call that returned a response has persisted exactly one user
\* turn and exactly one agent turn.
C4_TwoTurnsPerResponse ==
  \A p \in Procs :
    last[p].agent # "none" => (last[p].user_turns = 1 /\ last[p].agent_turns = 1)

\* C5: a call that finds the user's conversation completed records no turn in
\* it (its message goes to a new conversation).
C5_CompletedIsTerminal ==
  \A p \in Procs :
    loc[p].picked_completed => (loc[p].user_turns = 0 /\ loc[p].agent_turns = 0)

\* the specialists of the pass whose own call failed (raised, or returned
\* success = false)
FailedSpecialists ==
  {a \in required_agents : service_results[a] # "ok"}

\* C6: a finished pass in which fewer than all required specialists failed
\* marks exactly the failed ones with status error and the others success.
C6_PartialFailuresReported ==
  (cpc = "done" /\ FailedSpecialists # required_agents) =>
     /\ coordinated # "none"
     /\ \A a \in required_agents :
          agent_results[a] = (IF a \in FailedSpecialists THEN "error" ELSE "success")

\* C7: a finished pass in which every required specialist failed returns the
\* apology / redirect fallback text, not the normal analysis summary.
C7_TotalFailureFallback ==
  (cpc = "done" /\ FailedSpecialists = required_agents) => coordinated = "apology"

\* C8: in one pass no wrapper is called twice, none outside the required set
\* is called, and once the pass is beyond a required specialist's block that
\* specialist has been called, whatever happened to the earlier ones.
C8_EachRequiredInvokedOnce ==
  /\ \A a \in Agents : invoked[a] <= 1 /\ (invoked[a] = 1 => a \in required_agents)
  /\ cpc \in {"coordinate", "done"} =>
       \A a \in required_agents : invoked[a] = 1

\* a finished pass of four specialists in which the first ones failed and the
\* later ones were still called
C8_AllCalledDespiteFailures ==
  /\ cpc = "done"
  /\ required_agents = Agents
  /\ agent_results["cultural_context"] = "error"
  /\ agent_results["perplexity"] = "error"
  /\ invoked["seranking"] = 1
  /\ invoked["data_synthesis"] = 1

\* C9: while the coordinator awaits a specialist, the call of every required
\* data-gathering specialist has already been started.
C9_FanOutStartsAllBeforeAwait ==
  in_flight # {} =>
    \A b \in required_agents \cap {"perplexity", "seranking"} : invoked[b] >= 1

\* C10: the results handed to data synthesis are those of specialists that
\* succeeded; no result of a failed specialist is among them.
C10_SynthesisGetsOnlySuccesses ==
  \A a \in Agents :
    synthesis_input[a] # "absent" =>
      (synthesis_input[a] = "success" /\ service_results[a] = "ok")

\* C11: a call has persisted no turn until its message has been classified
\* and the reply culturally adapted: whenever a call has committed a turn, it
\* is past _process_with_master_agent and _apply_cultural_intelligence.
C11_NoTurnBeforeAdaptation ==
  \A p \in Procs :
    (loc[p].user_turns + loc[p].agent_turns > 0) =>
       pc[p] \in {"read_agent_turn", "commit_agent_turn", "metadata"}

\* C12: a call in which persisting a turn failed ends with the failure
\* raised to its caller, not with a returned ChatResponse.
C12_StoreFailureIsRaised ==
  \A p \in Procs :
    last[p].error = "store" => last[p].agent = "raised"

\* C13: a pass whose message is empty calls no specialist wrapper.
C13_EmptyMessageRejected ==
  (passes > 0 /\ user_message = <<>>) => \A a \in Agents : invoked[a] = 0

\* C14: analyze_website and analyze_backlinks never raise: whatever the
\* vendor call does, the specialist's own call returns a value.
C14_AdaptersNeverRaise ==
  \A a \in {"perplexity", "seranking"} :
    ExtractWebsiteUrl(user_message) # <<>> => service_results[a] # "raised"

\* C15: process_message never raises, every response it returns has a
\* non-empty text, and every call that is being served eventually returns.
C15_EveryMessageGetsAResponse ==
  /\ [](\A p \in Procs :
         /\ last[p].agent # "raised"
         /\ last[p].agent # "none" => Len(last[p].content) > 0)
  /\ \A p \in Procs : (pc[p] # "idle") ~> (pc[p] = "idle" /\ last[p].agent # "none")

\* a call returned a response although its turn could not be stored, and
\* another returned the adapted analysis
C15_ResponsesAfterFailureAndSuccess ==
  /\ \E p \in Procs : last[p].error = "store" /\ last[p].content = <<"APOLOGY">>
  /\ \E p \in Procs : last[p].agent = "master_agent" /\ Len(last[p].content) = 3

\* C16: every call that got as far as the cultural adaptation and whose
\* turns could be stored returns a response whose adaptation did not fail and
\* that carries at least one cultural adaptation note, with or without a
\* stored CulturalContext of the user.
C16_AdaptationAlwaysNoted ==
  \A p \in Procs :
    (last[p].user_turns = 1 /\ last[p].error # "store") =>
       (last[p].error # "adaptation" /\ last[p].cultural_notes >= 1)

\* C17: the classifier's result for the message of a pass is not empty, has
\* no duplicate, contains cultural_context, and is exactly cultural_context
\* when the message contains no keyword of any group.
C17_ClassifierFloor ==
  passes > 0 =>
    /\ required_agents # {}
    /\ required_agents \subseteq Agents
    /\ "cultural_context" \in required_agents
    /\ MatchingGroups(user_message) = {} => required_agents = {"cultural_context"}

\* a pass for a message without any keyword has been classified
C17_GreetingClassified ==
  /\ cpc = "cultural_context"
  /\ user_message = MsgHello
  /\ MatchingGroups(user_message) = {}

\* C18: the first matching keyword group alone decides: every message with
\* the same highest-priority matching group as the message of the pass gets
\* the same specialists, whatever other groups either of them matches, and a
\* message with an SEO keyword gets seranking.
C18_FirstMatchWins ==
  (passes > 0 /\ MatchingGroups(user_message) # {}) =>
    /\ \A m \in Messages :
         (/\ MatchingGroups(m) # {}
          /\ Min(MatchingGroups(m)) = Min(MatchingGroups(user_message)))
           => DetermineRequiredAgents(m) = required_agents
    /\ 1 \in MatchingGroups(user_message) => "seranking" \in required_agents

\* a pass for a message with an SEO keyword and a marketing keyword
C18_SeoAndMarketingClassified ==
  /\ cpc = "cultural_context"
  /\ MatchingGroups(user_message) = {1, 4}
  /\ "seranking" \in required_agents

\* C19: data_synthesis is among the required specialists exactly when more
\* than one specialist other than cultural_context was selected.
C19_SynthesisOnlyForSeveral ==
  passes > 0 =>
    ("data_synthesis" \in required_agents
       <=> Cardinality(required_agents \ {"cultural_context", "data_synthesis"}) > 1)

\* C20: when a call has returned its normal response, the involved_agents of
\* its conversation hold every specialist the pass activated, each name at
\* most once, and still hold the name the conversation was created with.
C20_InvolvedAgentsRecorded ==
  \A p \in Procs :
    last[p].agent = "master_agent" =>
      LET involved == conversations[last[p].conversation_id].involved_agents
      IN  /\ last[p].activated \subseteq ToSet(involved)
          /\ Cardinality(ToSet(involved)) = Len(involved)
          /\ "master_agent" \in ToSet(involved)

\* C21: for every backlink summary with non-negative counts the
\* local_relevance_score is between 0.0 and 10.0, and the same summary with
\* a higher Saudi referring-domain count never scores lower.
C21_ScoreBoundedAndMonotone ==
  saudi_context.analysed =>
    /\ saudi_context.local_relevance_score >= 0
    /\ saudi_context.local_relevance_score <= 100
    /\ api_data.summary # <<>> =>
         \A raised \in RaisedSaudiCount(api_data.summary[1]) :
           LET old == SaudiDomainsCount(api_data.summary[1].top_countries)
               new == SaudiDomainsCount(raised.top_countries)
               s   == AnalyzeSaudiMarketContext(
                        [api_data EXCEPT !.summary = <<raised>>]).local_relevance_score
           IN  /\ new >= old => s >= saudi_context.local_relevance_score
               /\ new <= old => s <= saudi_context.local_relevance_score

\* a summary without refdomains and without anchors whose weighted sum
\* exceeds 10.0 has been scored
C21_CappedScoreWithoutRefdomains ==
  /\ saudi_context.analysed
  /\ api_data.summary # <<>>
  /\ api_data.summary[1].refdomains = <<>>
  /\ api_data.summary[1].top_anchors_by_backlinks = <<>>
  /\ saudi_context.saudi_domains_count = MaxCount
  /\ saudi_context.local_relevance_score = 100

\* C22: every reply process_message builds on its normal path names the
\* agent master_agent and has a message_id that starts with msg_.
C22_ReplyHasMsgId ==
  \A p \in Procs :
    last[p].agent = "master_agent" => StartsWith(last[p].message_id, <<"msg_">>)

\* C23: the reply of generate_simple_response contains the word of the first
\* group, in the order greeting, SEO, marketing, competitor, of which the
\* lower-cased message contains a keyword: hello, seo, marketing, competitor;
\* and "ai marketing assistant" when the message matches no group.
C23_SimpleReplyByFirstGroup ==
  simple_response # <<>> =>
    LET groups == MatchingSimpleGroups(simple_content)
    IN  Contains(Lower(simple_response),
                 IF groups = {} THEN DefaultMarker ELSE SimpleMarkers[Min(groups)])

\* C27: an anonymous client keeps its conversation: a call without user_id
\* of a client that has called before is attributed to the guest user of the
\* first call and answered normally, so no call ends with the error of
\* _get_or_create_user.
C27_AnonymousClientKeepsUser ==
  \A p \in Procs : last[p].error # "user"

\* the counters of every stored conversation add up
CountersAddUp ==
  \A c \in DOMAIN conversations :
    conversations[c].total_turns =
      conversations[c].user_messages_count + conversations[c].agent_messages_count

\* no step lowers a counter of a stored conversation
CountersDoNotDecrease ==
  \A c \in DOMAIN conversations :
    /\ conversations'[c].total_turns >= conversations[c].total_turns
    /\ conversations'[c].user_messages_count >= conversations[c].user_messages_count
    /\ conversations'[c].agent_messages_count >= conversations[c].agent_messages_count

\* C28: in every reachable state of a conversation total_turns =
\* user_messages_count + agent_messages_count, and none of the three counters
\* ever decreases.
C28_CountersConsistent ==
  []CountersAddUp /\ [][CountersDoNotDecrease]_vars

\* C26: the history handed to the agents is the last 20 turns of the
\* conversation: of a conversation with more than 20 stored turns
\* _get_conversation_history returns the 20 most recently created ones, in
\* creation order (and all the turns when there are at most 20).
C26_HistoryIsLastTwenty ==
  history.read =>
    LET n     == Min({HistoryLimit, history.total})
        first == history.total - n
    IN  /\ Len(history.rows) = n
        /\ \A i \in 1..n : history.rows[i].timestamp = first + i

\* C24: every POST /seranking/analyze/{domain} request is answered with
\* success and the message that the analysis has been queued, and has
\* scheduled analyze_website_task exactly once, the domain record existing
\* by then.
C24_EveryRequestQueuesOneTask ==
  \A p \in Procs :
    sr_last[p].kind = "request" =>
      /\ sr_last[p].success
      /\ sr_last[p].scheduled = 1
      /\ sr_last[p].domain_obj \in DOMAIN domains

C30_TaskStatusAndCleanup ==
  \A p \in Procs :
    sr_last[p].kind = "task" =>
      /\ sr_last[p].closed
      /\ sr_last[p].completed => sr_last[p].persisted
      /\ (sr_last[p].raised /\ sr_last[p].domain_obj # NoRow) =>
            (sr_last[p].set_failed /\ sr_last[p].retry)

\* no two stored users have the same e-mail
OneUserPerEmail ==
  \A u1, u2 \in DOMAIN users : users[u1].email = users[u2].email => u1 = u2

\* a register call that finds its e-mail stored is not answered with success
\* and stores nothing
RegisteredEmailRejected ==
  \A p \in Procs :
    (/\ auth_pc[p] \in {"select_user", "insert_user"}
     /\ auth_pc'[p] = "idle"
     /\ UsersByEmail(NormalizeEmail(auth_req[p].email)) # {})
    => (auth_last'[p].status # 200 /\ users' = users)

\* a login that follows a successful register with the e-mail and password
\* of that register is answered with a bearer token
LoginAfterRegister ==
  \A p, q \in Procs :
    (/\ auth_last'[p].op = "login"
     /\ auth_last'[p].call = auth_started'
     /\ auth_started' = auth_started + 1
     /\ auth_last[q].op = "register"
     /\ auth_last[q].status = 200
     /\ auth_last'[p].email = auth_last[q].email
     /\ auth_last'[p].password = auth_last[q].password)
    => (auth_last'[p].status = 200 /\ auth_last'[p].token_type = "bearer")

\* C25: after register(email, password) succeeds a login with the same
\* e-mail and password returns an access token of type bearer; a register
\* call for an e-mail already registered is rejected; and after any sequence
\* of register calls exactly one user exists per registered e-mail.
C25_RegisterThenLogin ==
  /\ []OneUserPerEmail
  /\ [][RegisteredEmailRejected]_vars
  /\ [][LoginAfterRegister]_vars

====
